---- MODULE Spec2Model ----
(***************************************************************************)
(* Model of src/xrp_usdt.py: the one-hour price window (HourWindowPrices)  *)
(* fed by make_request with ticks (CoinPriceTick) parsed from the exchange *)
(* payload, and the 1% drawdown trigger (CoinPriceTick.is_trigger).        *)
(*                                                                         *)
(* Prices are floats in the source.  The model draws them from a small set *)
(* of integers; on these values the float product max_price * 0.99         *)
(* compares with an integer price exactly as 99 * max_price compares with  *)
(* 100 * price (the rounding error of the product is far below 1/100).     *)
(* datetime.fromtimestamp yields a naive local datetime; the zone is taken *)
(* to have a fixed offset, which cancels in every comparison made here.    *)
(***************************************************************************)
EXTENDS Integers, Sequences, FiniteSets, TLC

\* ------------------------------------------------------------------ bounds
\* Largest number of ticks the window is allowed to hold in the model.
MaxLen == 3
\* Largest number of requests main issues in the model of the poll loop.
MaxRequests == 3

\* --------------------------------------------------------------- constants
\* timedelta(hours=1), in seconds.
SecondsPerHour == 3600
\* The factor 0.99 of is_trigger, as the fraction ThresholdNum / ThresholdDen.
ThresholdNum == 99
ThresholdDen == 100
\* float("nan"): a value that is no price and compares false with every price.
NaN == -1

\* The symbol the window is built for (main: HourWindowPrices(CoinSymbol.XRPUSDT)).
CoinSymbol == {"XRPUSDT"}
XRPUSDT == "XRPUSDT"
\* A symbol that is not the window's, for direct calls of update.
ForeignSymbol == "BTCUSDT"

\* Inputs: prices and epoch-millisecond times carried by a payload.
Prices == {98, 99, 100, 150}
TimesMs == {0, 1000, 3601000, 3602000}

\* SymbolPriceTick: the validated payload (symbol is a CoinSymbol member).
SymbolPriceTick == [symbol : CoinSymbol, price : Prices, time : TimesMs]

\* ---------------------------------------------------------------- datetime
\* datetime.fromtimestamp(ms / 1000): seconds and microseconds of the instant.
fromtimestamp(ms) == [s |-> ms \div 1000, us |-> (ms % 1000) * 1000]

\* datetime < datetime
dt_lt(a, b) == a.s < b.s \/ (a.s = b.s /\ a.us < b.us)

\* datetime - timedelta(hours=1)
plus_hour(d) == [s |-> d.s + SecondsPerHour, us |-> d.us]
minus_hour(d) == [s |-> d.s - SecondsPerHour, us |-> d.us]

\* ----------------------------------------------------------- CoinPriceTick
\* CoinPriceTick.__init__
CoinPriceTick(p) == [symbol |-> p.symbol, price |-> p.price, time |-> fromtimestamp(p.time)]

\* CoinPriceTick.__lt__ (both ticks of the same symbol)
tick_lt(a, b) == dt_lt(a.time, b.time)

\* CoinPriceTick.is_trigger: window_prices.max_price * 0.99 >= self.price
is_trigger_strict(tick, max_price) == max_price # NaN /\ ThresholdNum * max_price > ThresholdDen * tick.price
is_trigger_no_margin(tick, max_price) == max_price # NaN /\ max_price >= tick.price
is_trigger(tick, max_price) == max_price # NaN /\ ThresholdNum * max_price >= ThresholdDen * tick.price

\* Ticks that make_request can build, and ticks of a foreign symbol.
Ticks == {CoinPriceTick(p) : p \in SymbolPriceTick}
ForeignTicks == {[t EXCEPT !.symbol = ForeignSymbol] : t \in Ticks}

\* ------------------------------------------------------------------ helpers
Range(seq) == {seq[i] : i \in 1..Len(seq)}

\* The ticks of S that no tick of S precedes in time.
Earliest(S) == {x \in S : \A y \in S : ~tick_lt(y, x)}

\* list(set(...)) followed by list.sort(): every arrangement of the distinct
\* ticks that ascends by time.  The iteration order of a set depends on the
\* hashes, and the sort is stable, so ticks of equal time may come out in
\* any relative order.
RECURSIVE sorted_lists(_)
sorted_lists(S) ==
  IF S = {} THEN {<<>>}
  ELSE UNION {{<<x>> \o rest : rest \in sorted_lists(S \ {x})} : x \in Earliest(S)}

\* list(set(...)) without the sort: the distinct ticks in any order.
RECURSIVE any_lists(_)
any_lists(S) ==
  IF S = {} THEN {<<>>}
  ELSE UNION {{<<x>> \o rest : rest \in any_lists(S \ {x})} : x \in S}

\* max([tick.price for tick in sequence]), sequence not empty
RECURSIVE max_of(_)
max_of(seq) ==
  IF Len(seq) = 1 THEN seq[1].price
  ELSE LET m == max_of(Tail(seq)) IN IF seq[1].price > m THEN seq[1].price ELSE m

\* -------------------------------------------------------- HourWindowPrices
VARIABLES
  sequence,         \* HourWindowPrices.sequence
  max_price,        \* HourWindowPrices.max_price
  price_tick,       \* the tick handed to the last call of update
  is_new_element,   \* what the last call of update returned
  is_border_update, \* what _update_time_border returned in that call
  warning,          \* make_request logged the alert for that tick
  outcome,          \* "init", or how the last call of update ended
  tasks,            \* the make_request tasks main has issued, in order
  running           \* the task the event loop is executing, 0 when it is idle

vars == <<sequence, max_price, price_tick, is_new_element, is_border_update, warning, outcome,
          tasks, running>>

\* The state of the poll loop.
poll_vars == <<tasks, running>>

\* HourWindowPrices._symbol
_symbol == XRPUSDT

\* No call of update yet.
NoTick == [symbol |-> "none", price |-> 0, time |-> fromtimestamp(0)]

\* HourWindowPrices._add_tick: the possible results of one call.  A tick of
\* another symbol raises before the sequence is touched.
_add_tick_unchecked(seq, tick) ==
  {[raised |-> FALSE, sequence |-> s, ret |-> Len(seq) < Len(s)] :
     s \in any_lists(Range(seq \o <<tick>>))}
_add_tick_unsorted(seq, tick) ==
  IF tick.symbol # _symbol
  THEN {[raised |-> TRUE, sequence |-> seq, ret |-> FALSE]}
  ELSE {[raised |-> FALSE, sequence |-> s, ret |-> Len(seq) < Len(s)] :
          s \in any_lists(Range(seq \o <<tick>>))}
_add_tick(seq, tick) ==
  IF tick.symbol # _symbol
  THEN {[raised |-> TRUE, sequence |-> seq, ret |-> FALSE]}
  ELSE {[raised |-> FALSE, sequence |-> s, ret |-> Len(seq) < Len(s)] :
          s \in sorted_lists(Range(seq \o <<tick>>))}

\* The for loop of _update_time_border.  The list iterator is at index i
\* (1-based) of the list as it is now; pop(0) shortens the list under it.
RECURSIVE border_loop_le(_, _, _, _)
border_loop_le(seq, i, min_border, upd) ==
  IF i > Len(seq) THEN [sequence |-> seq, ret |-> upd]
  ELSE IF ~dt_lt(min_border, seq[i].time)
       THEN border_loop_le(Tail(seq), i + 1, min_border, TRUE)
       ELSE [sequence |-> seq, ret |-> upd]
RECURSIVE border_loop_pop_last(_, _, _, _)
border_loop_pop_last(seq, i, min_border, upd) ==
  IF i > Len(seq) THEN [sequence |-> seq, ret |-> upd]
  ELSE IF dt_lt(seq[i].time, min_border)
       THEN border_loop_pop_last(SubSeq(seq, 1, Len(seq) - 1), i + 1, min_border, TRUE)
       ELSE [sequence |-> seq, ret |-> upd]
RECURSIVE border_loop(_, _, _, _)
border_loop(seq, i, min_border, upd) ==
  IF i > Len(seq) THEN [sequence |-> seq, ret |-> upd]
  ELSE IF dt_lt(seq[i].time, min_border)
       THEN border_loop(Tail(seq), i + 1, min_border, TRUE)
       ELSE [sequence |-> seq, ret |-> upd]

\* HourWindowPrices._update_time_border, sequence not empty: the loop's
\* sequence and is_border_update.
_update_time_border_first(seq) ==
  border_loop(seq, 1, minus_hour(seq[1].time), FALSE)
_update_time_border(seq) ==
  border_loop(seq, 1, minus_hour(seq[Len(seq)].time), FALSE)

\* HourWindowPrices.update: the possible results of one call from the
\* window (seq, mp).  max() of an empty list raises, after the sequence has
\* been changed and before max_price is assigned.
update_max_first(seq, mp, tick) ==
  {IF a.raised
   THEN [raised |-> TRUE, sequence |-> seq, max_price |-> mp,
         ret |-> FALSE, border |-> FALSE]
   ELSE LET b == _update_time_border(a.sequence) IN
        [raised |-> FALSE, sequence |-> b.sequence,
         max_price |-> max_of(a.sequence), ret |-> a.ret, border |-> b.ret]
   : a \in _add_tick(seq, tick)}
update(seq, mp, tick) ==
  {IF a.raised
   THEN [raised |-> TRUE, sequence |-> seq, max_price |-> mp,
         ret |-> FALSE, border |-> FALSE]
   ELSE LET b == _update_time_border(a.sequence) IN
        IF b.sequence = <<>>
        THEN [raised |-> TRUE, sequence |-> b.sequence, max_price |-> mp,
              ret |-> FALSE, border |-> b.ret]
        ELSE [raised |-> FALSE, sequence |-> b.sequence,
              max_price |-> max_of(b.sequence), ret |-> a.ret, border |-> b.ret]
   : a \in _add_tick(seq, tick)}

\* HourWindowPrices.__init__
Init ==
  /\ sequence = <<>>
  /\ max_price = NaN
  /\ price_tick = NoTick
  /\ is_new_element = FALSE
  /\ is_border_update = FALSE
  /\ warning = FALSE
  /\ outcome = "init"
  /\ tasks = <<>>
  /\ running = 0

\* The model keeps at most MaxLen distinct ticks in the window.
WithinBound(tick) == Cardinality(Range(sequence) \cup {tick}) <= MaxLen

\* make_request, response status 200: build the tick from the payload, update
\* the window, and log the alert when the tick is new and is_trigger holds.
\* Nothing is awaited between these steps.
make_request(payload) ==
  LET tick == CoinPriceTick(payload) IN
  /\ WithinBound(tick)
  /\ \E r \in update(sequence, max_price, tick) :
       /\ sequence' = r.sequence
       /\ max_price' = r.max_price
       /\ price_tick' = tick
       /\ is_new_element' = r.ret
       /\ is_border_update' = r.border
       /\ warning' = (r.ret /\ is_trigger(tick, r.max_price))
       /\ outcome' = IF r.raised THEN "raised" ELSE "returned"
  /\ UNCHANGED poll_vars

\* update called with a tick of another symbol: _add_tick raises and the
\* exception leaves update.
update_foreign(tick) ==
  /\ \E r \in update(sequence, max_price, tick) :
       /\ sequence' = r.sequence
       /\ max_price' = r.max_price
       /\ price_tick' = tick
       /\ is_new_element' = r.ret
       /\ is_border_update' = r.border
       /\ warning' = FALSE
       /\ outcome' = IF r.raised THEN "raised" ELSE "returned"
  /\ UNCHANGED poll_vars

Next ==
  \/ \E payload \in SymbolPriceTick : make_request(payload)
  \/ \E tick \in ForeignTicks : update_foreign(tick)

Spec == Init /\ [][Next]_vars

\* ---------------------------------------------------------------- poll loop
\* main issues a request every interval and never awaits it; each request is
\* a task of the one event loop started by asyncio.run.  A task runs without
\* interruption until it awaits (session.get, response.json, response.text).

\* response.status: 200, or any other status.
StatusOK == 200
StatusOther == 500

\* The JSON bodies the exchange may answer with: quotes of the window's
\* symbol, with prices that need not be positive, and a body whose symbol is
\* no member of CoinSymbol.
PollPrices == {-5, 0, 100}
PollTimesMs == {0, 1000}
Payloads ==
  [symbol : CoinSymbol, price : PollPrices, time : PollTimesMs]
    \cup {[symbol |-> ForeignSymbol, price |-> 100, time |-> 0]}

\* parse_obj_as(SymbolPriceTick, payload) succeeds: symbol is validated
\* against the enum; price is any float and time any int.
parse_obj_as(payload) == payload.symbol \in CoinSymbol

\* A task as loop.call_later(0, asyncio.create_task, coro) registers it.
NewTask == [pc |-> "scheduled", tick |-> NoTick, is_new |-> FALSE,
            own_max |-> NaN, used_max |-> NaN]

\* The event loop runs task i (main is 0) only when no other task is in the
\* middle of a synchronous stretch.
CanRun_preempt(i) == TRUE
CanRun(i) == running = 0 \/ running = i

\* One iteration of main's while True: create the coroutine, register the
\* task, sleep.  Nothing of the earlier requests is awaited.
main_iteration_awaits ==
  /\ CanRun(0)
  /\ Len(tasks) < MaxRequests
  /\ \A i \in 1..Len(tasks) : tasks[i].pc \in {"done", "failed"}
  /\ tasks' = Append(tasks, NewTask)
  /\ UNCHANGED <<sequence, max_price, price_tick, is_new_element, is_border_update,
                 warning, outcome, running>>
main_iteration_fatal ==
  /\ CanRun(0)
  /\ Len(tasks) < MaxRequests
  /\ \A i \in 1..Len(tasks) : tasks[i].pc # "failed"
  /\ tasks' = Append(tasks, NewTask)
  /\ UNCHANGED <<sequence, max_price, price_tick, is_new_element, is_border_update,
                 warning, outcome, running>>
main_iteration ==
  /\ CanRun(0)
  /\ Len(tasks) < MaxRequests
  /\ tasks' = Append(tasks, NewTask)
  /\ UNCHANGED <<sequence, max_price, price_tick, is_new_element, is_border_update,
                 warning, outcome, running>>

\* The task starts and suspends in session.get.
task_start(i) ==
  /\ CanRun(i)
  /\ tasks[i].pc = "scheduled"
  /\ tasks' = [tasks EXCEPT ![i].pc = "get"]
  /\ UNCHANGED <<sequence, max_price, price_tick, is_new_element, is_border_update,
                 warning, outcome, running>>

\* The response arrives: match response.status, then suspend in
\* response.json() or response.text().
response_arrives(i, status) ==
  /\ CanRun(i)
  /\ tasks[i].pc = "get"
  /\ tasks' = [tasks EXCEPT ![i].pc = IF status = StatusOK THEN "json" ELSE "text"]
  /\ UNCHANGED <<sequence, max_price, price_tick, is_new_element, is_border_update,
                 warning, outcome, running>>

\* case _: the text arrives, the error is logged, RequestError ends the task.
text_arrives(i) ==
  /\ CanRun(i)
  /\ tasks[i].pc = "text"
  /\ tasks' = [tasks EXCEPT ![i].pc = "failed"]
  /\ UNCHANGED <<sequence, max_price, price_tick, is_new_element, is_border_update,
                 warning, outcome, running>>

\* case 200: the body arrives; parse_obj_as either raises, which ends the
\* task, or the tick is built and window_prices.update(price_tick) runs.
json_arrives(i, payload) ==
  /\ CanRun(i)
  /\ tasks[i].pc = "json"
  /\ IF ~parse_obj_as(payload)
     THEN /\ tasks' = [tasks EXCEPT ![i].pc = "failed"]
          /\ UNCHANGED <<sequence, max_price, price_tick, is_new_element,
                         is_border_update, warning, outcome, running>>
     ELSE LET tick == CoinPriceTick(payload) IN
          \E r \in update(sequence, max_price, tick) :
            /\ sequence' = r.sequence
            /\ max_price' = r.max_price
            /\ price_tick' = tick
            /\ is_new_element' = r.ret
            /\ is_border_update' = r.border
            /\ warning' = FALSE
            /\ outcome' = IF r.raised THEN "raised" ELSE "returned"
            /\ tasks' = [tasks EXCEPT ![i] =
                 [pc |-> IF r.raised THEN "failed" ELSE "updated", tick |-> tick,
                  is_new |-> r.ret, own_max |-> r.max_price, used_max |-> NaN]]
            /\ running' = IF r.raised THEN 0 ELSE i

\* if is_new_element: if price_tick.is_trigger(window_prices): logger.warning
\* with window_prices.max_price; the task ends.
trigger_step(i) ==
  /\ CanRun(i)
  /\ tasks[i].pc = "updated"
  /\ warning' = (tasks[i].is_new /\ is_trigger(tasks[i].tick, max_price))
  /\ tasks' = [tasks EXCEPT ![i].pc = "done", ![i].used_max = max_price]
  /\ running' = 0
  /\ UNCHANGED <<sequence, max_price, price_tick, is_new_element, is_border_update, outcome>>

NextPoll ==
  \/ main_iteration
  \/ \E i \in 1..Len(tasks) : task_start(i)
  \/ \E i \in 1..Len(tasks) : \E status \in {StatusOK, StatusOther} : response_arrives(i, status)
  \/ \E i \in 1..Len(tasks) : text_arrives(i)
  \/ \E i \in 1..Len(tasks) : \E payload \in Payloads : json_arrives(i, payload)
  \/ \E i \in 1..Len(tasks) : trigger_step(i)

SpecPoll == Init /\ [][NextPoll]_vars

\* ------------------------------------------------------------------- claims
\* The newest tick of the window and the lower time border it sets.
Newest == sequence[Len(sequence)]
MinBorder == minus_hour(Newest.time)

\* t lies within one hour of the newest tick: newest.time - t.time <= 1 hour.
InWindow(t) == ~dt_lt(t.time, MinBorder)

\* A tick built from a price and a time in epoch milliseconds.
TickAt(price, ms) == CoinPriceTick([symbol |-> XRPUSDT, price |-> price, time |-> ms])

\* C1: after every call of update that returns normally, every tick left in
\* sequence is at most one hour older than the last (newest) tick of sequence.
C1_EvictionBoundary ==
  outcome = "returned" => \A i \in 1..Len(sequence) : InWindow(sequence[i])

\* C2: in every reachable state sequence ascends by time and holds no two
\* ticks with the same (price, time) pair, whatever order the ticks came in.
C2_OrderingInvariant ==
  \A i, j \in 1..Len(sequence) :
    i < j => /\ ~dt_lt(sequence[j].time, sequence[i].time)
             /\ <<sequence[i].price, sequence[i].time>> # <<sequence[j].price, sequence[j].time>>

\* C2 witness: a tick that came late was put before ticks ingested earlier,
\* and the window holds two ticks of the same time.
C2_Witness ==
  /\ outcome = "returned" /\ is_new_element
  /\ Len(sequence) >= 3
  /\ price_tick = sequence[1]
  /\ dt_lt(sequence[1].time, sequence[2].time)
  /\ sequence[2].time = sequence[3].time

\* C3: after every call of update that returns normally, for a new tick and
\* for a duplicate alike, max_price is the price of a tick of sequence and no
\* tick of sequence has a higher price.
C3_MaxCorrectness ==
  outcome = "returned" =>
    /\ \E i \in 1..Len(sequence) : sequence[i].price = max_price
    /\ \A i \in 1..Len(sequence) : sequence[i].price <= max_price

\* C3 witness: a duplicate was ingested, the call evicted a tick, and the
\* maximum left is below the highest price of the inputs.
C3_Witness ==
  /\ outcome = "returned" /\ ~is_new_element /\ is_border_update
  /\ max_price = 100

\* C4: the alert is logged for the ingested tick exactly when update accepted
\* the tick as new and tick.price <= max_price * 0.99, max_price being the
\* value update left behind; a price of exactly 99% of the maximum triggers.
C4_TriggerCorrectness ==
  outcome = "returned" =>
    (warning <=> (is_new_element
                  /\ ThresholdDen * price_tick.price <= ThresholdNum * max_price))

\* C4 witness: a new tick priced at exactly 99% of the maximum raised the alert.
C4_Witness ==
  /\ outcome = "returned" /\ warning /\ is_new_element
  /\ price_tick.price = 99 /\ max_price = 100

\* C5: whenever the ingested tick raises the alert, some tick of the window
\* within one hour of the newest tick has a price p with tick.price <= 0.99 * p.
C5_AlertAgainstTrueWindow ==
  (outcome = "returned" /\ warning) =>
    \E i \in 1..Len(sequence) :
      /\ InWindow(sequence[i])
      /\ ThresholdDen * price_tick.price <= ThresholdNum * sequence[i].price

\* C6: when update is called twice in a row with the same tick, the second
\* call returns False and leaves the length of sequence unchanged.
C6_DedupIdempotence ==
  [][(outcome = "returned" /\ outcome' = "returned" /\ price_tick' = price_tick)
       => (~is_new_element' /\ Len(sequence') = Len(sequence))]_vars

\* C7: when update is called with a tick that is already an element of
\* sequence, it returns False and sequence and max_price stay as they were.
C7_DuplicateNoOp ==
  [][(outcome' = "returned" /\ price_tick' \in Range(sequence))
       => (~is_new_element' /\ sequence' = sequence /\ max_price' = max_price)]_vars

\* C8: a call of update with a tick of another symbol raises, returns no
\* boolean, and leaves sequence and max_price as they were before the call.
C8_SymbolMismatch ==
  [][(price_tick'.symbol # _symbol /\ outcome' # "init")
       => (outcome' = "raised" /\ sequence' = sequence /\ max_price' = max_price)]_vars

\* C8 witness: update raised on a foreign tick while the window held ticks.
C8_Witness ==
  /\ outcome = "raised" /\ price_tick.symbol = ForeignSymbol
  /\ Len(sequence) >= 2 /\ max_price = 150

\* Two calls of update in a row, first with t1, then with t2: the possible
\* final windows.
IngestBoth(seq, mp, t1, t2) ==
  UNION {update(r.sequence, r.max_price, t2) : r \in update(seq, mp, t1)}

\* C9: from every reachable window, ingesting two distinct ticks in either
\* order leaves the same set of ticks in sequence and the same max_price.
C9_IngestCommutative ==
  \A t1, t2 \in Ticks :
    t1 # t2 =>
      \A r1 \in IngestBoth(sequence, max_price, t1, t2),
         r2 \in IngestBoth(sequence, max_price, t2, t1) :
        /\ Range(r1.sequence) = Range(r2.sequence)
        /\ r1.max_price = r2.max_price

\* The window of Scenario 4: exactly a tick at t=0 and a tick at t=1s.
Scenario4Window ==
  /\ Len(sequence) = 2
  /\ sequence[1].time = fromtimestamp(0)
  /\ sequence[2].time = fromtimestamp(1000)

\* C10 as stated: from the window of Scenario 4, ingesting (150, t=3601s)
\* evicts both earlier ticks and leaves only the new tick, max_price is 150
\* and the tick does not trigger.
C10_Scenario4_AsStated ==
  [][(Scenario4Window /\ outcome' = "returned" /\ price_tick' = TickAt(150, 3601000))
       => (sequence' = <<price_tick'>> /\ max_price' = 150 /\ ~warning')]_vars

\* C10 amended: from the window of Scenario 4, ingesting (150, t=3601s) evicts
\* only the tick at t=0; the tick at t=1s, exactly one hour older than the
\* new tick, stays in front of it; max_price is 150 and the tick does not
\* trigger.
C10_Scenario4 ==
  [][(Scenario4Window /\ outcome' = "returned" /\ price_tick' = TickAt(150, 3601000))
       => (/\ sequence' = <<sequence[2], price_tick'>>
           /\ is_new_element' /\ is_border_update'
           /\ max_price' = 150 /\ ~warning')]_vars

\* C10 witness: the window after that call, with the ticks of Scenarios 1-2
\* ingested before.
C10_Witness ==
  /\ outcome = "returned" /\ is_new_element /\ is_border_update
  /\ price_tick = TickAt(150, 3601000)
  /\ sequence = <<TickAt(98, 1000), TickAt(150, 3601000)>>
  /\ max_price = 150 /\ ~warning

\* C11: whenever update returns True, the ingested tick is an element of
\* sequence when update returns.
C11_InsertedTickStays ==
  (outcome = "returned" /\ is_new_element) => price_tick \in Range(sequence)

\* The ticks a returning call of update took out of the window: those of the
\* window before the call, or the ingested one, that are not in sequence after.
Removed == (Range(sequence) \cup {price_tick'}) \ Range(sequence')

\* C15: a returning call of update removes only ticks whose time is below
\* newest.time - 1 hour (a tick exactly one hour older than the newest is
\* kept), and every tick it removes precedes no tick that it keeps.
C15_PrefixTrim ==
  [][outcome' = "returned" =>
       \A r \in Removed :
         /\ dt_lt(r.time, minus_hour(sequence'[Len(sequence')].time))
         /\ \A k \in Range(sequence') : ~dt_lt(k.time, r.time)]_vars

\* C15 witness: an update evicted ticks and kept, at the front, a tick that
\* is exactly one hour older than the newest.
C15_Witness ==
  /\ outcome = "returned" /\ is_border_update
  /\ Len(sequence) >= 2
  /\ sequence[1].time = MinBorder

\* C16: an accepted tick with a positive price that equals max_price after
\* the update does not raise the alert.
C16_MaxNeverTriggers ==
  (outcome = "returned" /\ is_new_element
     /\ price_tick.price > 0 /\ price_tick.price = max_price) => ~warning

\* C16 witness: the first tick, (100, t=0), went into the empty window and
\* is the maximum.
C16_Witness ==
  /\ outcome = "returned" /\ is_new_element /\ ~warning
  /\ price_tick = TickAt(100, 0)
  /\ sequence = <<TickAt(100, 0)>>
  /\ max_price = 100

\* C17: sequence is empty exactly while max_price is NaN; a call of update
\* that returns leaves sequence non-empty and max_price a price; update
\* raises only on a tick of another symbol (max() never fails); and once
\* sequence is non-empty it stays so.
C17_NonEmptyAfterUpdate ==
  /\ [](/\ (sequence = <<>>) <=> (max_price = NaN)
        /\ outcome = "returned" => (sequence # <<>> /\ max_price \in Prices)
        /\ outcome = "raised" => price_tick.symbol # _symbol)
  /\ [][sequence # <<>> => sequence' # <<>>]_vars

\* C17 witness: a tick older than the border came late into a window of one
\* tick, was evicted, and the window still holds its newest tick.
C17_Witness ==
  /\ outcome = "returned" /\ is_new_element /\ is_border_update
  /\ Len(sequence) = 1 /\ price_tick # sequence[1]
  /\ max_price = sequence[1].price

\* C18: the time of the last element of sequence never decreases.
C18_NewestNeverBackwards ==
  [][sequence # <<>> =>
       (sequence' # <<>> /\ ~dt_lt(sequence'[Len(sequence')].time, Newest.time))]_vars

\* C18 witness: a late tick was ingested and ticks were evicted, and the
\* newest tick is still a later one.
C18_Witness ==
  /\ outcome = "returned" /\ is_new_element /\ is_border_update
  /\ Len(sequence) >= 2
  /\ dt_lt(price_tick.time, Newest.time)

\* C12: a payload whose price is zero or negative never reaches the window:
\* in every reachable state of the poll loop every tick of sequence has a
\* price above zero.
C12_PricePositive ==
  \A i \in 1..Len(sequence) : sequence[i].price > 0

\* Task i ends with an exception in this step.
FailStep(i) == tasks[i].pc # "failed" /\ tasks'[i].pc = "failed"

\* C13: a task that fails (status other than 200, or a body that does not
\* parse) fails without a call of update and leaves sequence and max_price
\* unchanged; and with failed tasks around, main can still issue the next
\* request and every other task can still take its next step, an ingestion
\* included.
C13_FailedCycleSkipped ==
  /\ [][\A i \in 1..Len(tasks) :
          FailStep(i) => /\ tasks[i].pc \in {"text", "json"}
                         /\ sequence' = sequence /\ max_price' = max_price
                         /\ price_tick' = price_tick /\ outcome' = outcome]_vars
  /\ []((\E i \in 1..Len(tasks) : tasks[i].pc = "failed" /\ running = 0) =>
          /\ Len(tasks) < MaxRequests => ENABLED main_iteration
          /\ \A j \in 1..Len(tasks) :
               /\ tasks[j].pc = "scheduled" => ENABLED task_start(j)
               /\ tasks[j].pc = "get" => ENABLED response_arrives(j, StatusOK)
               /\ tasks[j].pc = "json" =>
                    \A payload \in Payloads : ENABLED json_arrives(j, payload))

\* C13 witness: the first request failed on a non-200 status, the second on a
\* body that does not parse (no update was called for either), and the tick
\* of the third is in the window.
C13_Witness ==
  /\ Len(tasks) = 3
  /\ tasks[1].pc = "failed" /\ tasks[2].pc = "failed"
  /\ tasks[1].tick = NoTick /\ tasks[2].tick = NoTick
  /\ tasks[3].pc = "done" /\ tasks[3].is_new
  /\ sequence = <<tasks[3].tick>>

\* C14: while a task is between its update and its trigger decision, the
\* event loop is running that task, the last call of update is its own and
\* max_price is what that call computed; the max_price a finished task used
\* for the decision and the alert is the one its own update computed.
C14_IngestionAtomic ==
  \A i \in 1..Len(tasks) :
    /\ tasks[i].pc = "updated" =>
         /\ running = i
         /\ price_tick = tasks[i].tick
         /\ max_price = tasks[i].own_max
    /\ tasks[i].pc = "done" => tasks[i].used_max = tasks[i].own_max

\* C14 witness: a task has updated the window and not yet decided on the
\* alert, while another task has its response and waits for its body, and a
\* third has finished with an alert.
C14_Witness ==
  \E i, j, k \in 1..Len(tasks) :
    /\ tasks[i].pc = "updated" /\ tasks[i].is_new
    /\ tasks[j].pc = "json"
    /\ tasks[k].pc = "done" /\ tasks[k].is_new
    /\ tasks[k].own_max # tasks[i].own_max

\* C19: whatever the number of requests in flight, main can start the next
\* request whenever the event loop is idle, and a request that never gets its
\* response keeps no other request from taking its next step.
C19_MainNeverWaits ==
  running = 0 =>
    /\ Len(tasks) < MaxRequests => ENABLED main_iteration
    /\ \A i, j \in 1..Len(tasks) :
         (tasks[i].pc = "get" /\ i # j) =>
           /\ tasks[j].pc = "scheduled" => ENABLED task_start(j)
           /\ tasks[j].pc = "get" => ENABLED response_arrives(j, StatusOK)
           /\ tasks[j].pc = "text" => ENABLED text_arrives(j)
           /\ tasks[j].pc = "json" =>
                \A payload \in Payloads : ENABLED json_arrives(j, payload)

\* C19 witness: main has issued every request the model allows; all but the
\* last still wait for their response, and the last has completed with its
\* tick in the window.
C19_Witness ==
  /\ Len(tasks) = MaxRequests
  /\ \A i \in 1..(Len(tasks) - 1) : tasks[i].pc = "get"
  /\ tasks[Len(tasks)].pc = "done"
  /\ tasks[Len(tasks)].tick \in Range(sequence)

====
